---------------------------- MODULE Spec2Model ----------------------------
(***************************************************************************)
(* lapce-core/src/language.rs: language identification from a path, the   *)
(* per-language code-lens lists, and the recursive tree walk that marks    *)
(* the boundary lines of syntax nodes.                                     *)
(*                                                                         *)
(* A string is modelled as a sequence of tokens: a whitespace character,   *)
(* a path separator "/", a dot ".", or a maximal run of other characters.  *)
(* A node kind such as " impl_item\n" is <<" ", "impl_item", "\n">>.       *)
(***************************************************************************)
EXTENDS Integers, Sequences, FiniteSets, TLC

(***************************************************************************)
(* Bounds of the model.                                                    *)
(***************************************************************************)
MaxNodes == 3
MaxCalls == 2
MaxIdentify == 2

None == "None"

(***************************************************************************)
(* enum LapceLanguage                                                      *)
(***************************************************************************)
LapceLanguage ==
    {"Rust", "Go", "Javascript", "Jsx", "Typescript", "Tsx", "Python"}

(***************************************************************************)
(* The code-lens lists.                                                    *)
(***************************************************************************)
DEFAULT_CODE_LENS_LIST == << <<"source_file">> >>

\* Variant: the default ignore list left empty.
DefaultIgnoreListEmpty == << >>

DEFAULT_CODE_LENS_IGNORE_LIST == << <<"source_file">> >>

RUST_CODE_LENS_LIST ==
    << <<"source_file">>, <<"impl_item">>, <<"trait_item">>,
       <<"declaration_list">> >>

RUST_CODE_LENS_IGNORE_LIST ==
    << <<"source_file">>, <<"use_declaration">>, <<"line_comment">> >>

GO_CODE_LENS_LIST ==
    << <<"source_file">>, <<"type_declaration">>, <<"type_spec">>,
       <<"interface_type">>, <<"method_spec_list">> >>

GO_CODE_LENS_IGNORE_LIST ==
    << <<"source_file">>, <<"comment">>, <<"line_comment">> >>

(***************************************************************************)
(* str::trim, slice::contains, str::is_empty                               *)
(***************************************************************************)
IsWhitespace(tok) == tok \in {" ", "\t", "\n", "\r"}

RECURSIVE TrimStart(_)
TrimStart(s) ==
    IF s # <<>> /\ IsWhitespace(Head(s)) THEN TrimStart(Tail(s)) ELSE s

RECURSIVE TrimEnd(_)
TrimEnd(s) ==
    IF s # <<>> /\ IsWhitespace(s[Len(s)])
    THEN TrimEnd(SubSeq(s, 1, Len(s) - 1))
    ELSE s

Trim(s) == TrimEnd(TrimStart(s))

Contains(list, kind) == \E i \in 1..Len(list) : list[i] = kind

IsEmpty(s) == Len(s) = 0

(***************************************************************************)
(* The syntax tree and the TreeCursor navigation the walk uses.  Nodes are *)
(* numbered 1..n in document order, node 1 is the root (parent 0), and the *)
(* children of a node are ordered by number.                               *)
(***************************************************************************)
Children(t, i) == {c \in 1..t.n : t.parent[c] = i}

Min(S) == CHOOSE x \in S : \A y \in S : x <= y

LaterSiblings(t, i) == {c \in Children(t, t.parent[i]) : c > i}

\* TreeCursor::goto_first_child: whether it moved, and the new position.
GotoFirstChild(t, cur) ==
    IF Children(t, cur) # {}
    THEN [moved |-> TRUE, cursor |-> Min(Children(t, cur))]
    ELSE [moved |-> FALSE, cursor |-> cur]

\* TreeCursor::goto_next_sibling
GotoNextSibling(t, cur) ==
    IF t.parent[cur] # 0 /\ LaterSiblings(t, cur) # {}
    THEN [moved |-> TRUE, cursor |-> Min(LaterSiblings(t, cur))]
    ELSE [moved |-> FALSE, cursor |-> cur]

\* TreeCursor::goto_parent
GotoParent(t, cur) ==
    IF t.parent[cur] # 0
    THEN [moved |-> TRUE, cursor |-> t.parent[cur]]
    ELSE [moved |-> FALSE, cursor |-> cur]


(***************************************************************************)
(* The trees handed to the walk.  A shape is a parent function over        *)
(* document-order numbers: the parent of node i lies on the path from      *)
(* node i - 1 to the root.                                                 *)
(***************************************************************************)
RECURSIVE PathToRoot(_, _)
PathToRoot(par, i) ==
    IF par[i] = 0 THEN {i} ELSE {i} \cup PathToRoot(par, par[i])

Shapes(n) ==
    {par \in [1..n -> 0..(n - 1)] :
        /\ par[1] = 0
        /\ \A i \in 2..n : par[i] # 0 /\ par[i] \in PathToRoot(par, i - 1)}

\* Rows as a printer lays the nodes out: a leaf takes 2 * stretch + 1 rows;
\* a parent opens stretch rows before its first child and closes stretch
\* rows after its last child; a sibling starts on the row after the
\* previous sibling's last row.
RECURSIVE StartRow(_, _, _, _), EndRow(_, _, _, _)
StartRow(par, n, stretch, i) ==
    IF par[i] = 0 THEN 0
    ELSE LET before == {c \in 1..n : par[c] = par[i] /\ c < i}
         IN  IF before = {}
             THEN StartRow(par, n, stretch, par[i]) + stretch
             ELSE EndRow(par, n, stretch,
                         CHOOSE c \in before : \A d \in before : d <= c) + 1

EndRow(par, n, stretch, i) ==
    LET kids == {c \in 1..n : par[c] = i}
    IN  IF kids = {}
        THEN StartRow(par, n, stretch, i) + 2 * stretch
        ELSE EndRow(par, n, stretch,
                    CHOOSE c \in kids : \A d \in kids : d <= c) + stretch

MkTree(n, par, kind, stretch) ==
    [n      |-> n,
     parent |-> par,
     kind   |-> kind,
     start  |-> [i \in 1..n |-> StartRow(par, n, stretch, i)],
     end    |-> [i \in 1..n |-> EndRow(par, n, stretch, i)]]

Stretches == {0, 1}

\* The node kinds a parse of the language is drawn from: the root kind of
\* every list and a kind of neither list; for Rust and Go a kind of the
\* expand list only and a kind of the ignore list only; a kind that is
\* whitespace only (Rust), padded with whitespace (Go) or empty (the
\* other languages).
NodeKinds(language) ==
    CASE language = "Rust" ->
           { <<"source_file">>, <<"impl_item">>, <<"use_declaration">>,
             <<"function_item">>, <<"\n">> }
      [] language = "Go" ->
           { <<"source_file">>, <<"type_declaration">>, <<"comment">>,
             <<"function_declaration">>,
             <<" ", "type_declaration", "\n">> }
      [] OTHER ->
           { <<"source_file">>, <<"program">>, <<>> }

GeneratedTrees(language) ==
    UNION { UNION { { MkTree(n, par, kind, stretch) :
                        kind \in [1..n -> NodeKinds(language)],
                        stretch \in Stretches }
                    : par \in Shapes(n) }
            : n \in 1..MaxNodes }

\* source_file 0-5 { use_declaration 0-0, impl_item 2-5 { function_item 3-3 } }
RustImplTree ==
    [n      |-> 4,
     parent |-> <<0, 1, 1, 3>>,
     kind   |-> << <<"source_file">>, <<"use_declaration">>,
                   <<"impl_item">>, <<"function_item">> >>,
     start  |-> <<0, 0, 2, 3>>,
     end    |-> <<5, 0, 5, 3>>]

\* source_file 0-3 { use_declaration 0-0, line_comment 2-2, use_declaration 3-3 }
RustImportsTree ==
    [n      |-> 4,
     parent |-> <<0, 1, 1, 1>>,
     kind   |-> << <<"source_file">>, <<"use_declaration">>,
                   <<"line_comment">>, <<"use_declaration">> >>,
     start  |-> <<0, 0, 2, 3>>,
     end    |-> <<3, 0, 2, 3>>]

\* source_file 1-1 { comment 1-1 }
GoCommentTree ==
    [n      |-> 2,
     parent |-> <<0, 1>>,
     kind   |-> << <<"source_file">>, <<"comment">> >>,
     start  |-> <<1, 1>>,
     end    |-> <<1, 1>>]

\* source_file 0-6 { trait_item 0-3 { declaration_list 0-3 {
\*   function_signature_item 1-1, function_signature_item 2-2 } },
\*   function_item 5-6 }
RustTraitTree ==
    [n      |-> 6,
     parent |-> <<0, 1, 2, 3, 3, 1>>,
     kind   |-> << <<"source_file">>, <<"trait_item">>,
                   <<"declaration_list">>, <<"function_signature_item">>,
                   <<"function_signature_item">>, <<"function_item">> >>,
     start  |-> <<0, 0, 0, 1, 2, 5>>,
     end    |-> <<6, 3, 3, 1, 2, 6>>]

\* source_file 0-6 { comment 0-0, type_declaration 1-4 { type_spec 1-4 {
\*   interface_type 1-4 { method_spec_list 1-4 { method_spec 2-2,
\*   method_spec 3-3 } } } }, function_declaration 6-6 { block 6-6 } }
GoInterfaceTree ==
    [n      |-> 10,
     parent |-> <<0, 1, 1, 3, 4, 5, 6, 6, 1, 9>>,
     kind   |-> << <<"source_file">>, <<"comment">>, <<"type_declaration">>,
                   <<"type_spec">>, <<"interface_type">>,
                   <<"method_spec_list">>, <<"method_spec">>,
                   <<"method_spec">>, <<"function_declaration">>,
                   <<"block">> >>,
     start  |-> <<0, 0, 1, 1, 1, 1, 2, 3, 6, 6>>,
     end    |-> <<6, 0, 4, 4, 4, 4, 2, 3, 6, 6>>]

\* program 0-4 { function_declaration 0-2 { statement_block 0-2 },
\*   source_file 4-4 { comment 4-4 } }
ScriptTree ==
    [n      |-> 5,
     parent |-> <<0, 1, 2, 1, 4>>,
     kind   |-> << <<"program">>, <<"function_declaration">>,
                   <<"statement_block">>, <<"source_file">>,
                   <<"comment">> >>,
     start  |-> <<0, 0, 0, 4, 4>>,
     end    |-> <<4, 2, 2, 4, 4>>]

InputTrees(language) ==
    GeneratedTrees(language)
      \cup (CASE language = "Rust" ->
                   {RustImplTree, RustImportsTree, RustTraitTree}
              [] language = "Go" -> {GoCommentTree, GoInterfaceTree}
              [] OTHER -> {ScriptTree})

\* The sets a caller passes as normal_lines: a fresh one, or one that
\* already holds rows.
PassedSets == { {}, {0, 99} }


(***************************************************************************)
(* LapceLanguage::from_path.  A path is a sequence of tokens: "/", ".",    *)
(* a run of other characters, or "0x80", a byte that is not valid UTF-8.   *)
(* An Option is a record: some, and the value when some.                   *)
(***************************************************************************)
NoneOf == [some |-> FALSE, value |-> <<>>]

Some(v) == [some |-> TRUE, value |-> v]

LastIndexOf(s, tok) ==
    LET at == {i \in 1..Len(s) : s[i] = tok}
    IN  IF at = {} THEN 0 ELSE CHOOSE i \in at : \A j \in at : j <= i

\* Path::file_name: the last component; trailing separators and a trailing
\* "." component are skipped; none for the root, the empty path, "." and a
\* path ending in "..".
RECURSIVE FileName(_)
FileName(path) ==
    IF path = <<>> THEN NoneOf
    ELSE IF path[Len(path)] = "/" THEN FileName(SubSeq(path, 1, Len(path) - 1))
    ELSE LET cut  == LastIndexOf(path, "/")
             name == SubSeq(path, cut + 1, Len(path))
         IN  IF name = <<".">>
             THEN (IF cut = 0 THEN NoneOf ELSE FileName(SubSeq(path, 1, cut)))
             ELSE IF name = <<".", ".">> THEN NoneOf
             ELSE Some(name)

\* Path::extension: the part of the file name after its last ".", when the
\* file name has a "." that is not its first character.
Extension(path) ==
    LET file == FileName(path)
    IN  IF ~file.some THEN NoneOf
        ELSE LET dot == LastIndexOf(file.value, ".")
             IN  IF dot <= 1 THEN NoneOf
                 ELSE Some(SubSeq(file.value, dot + 1, Len(file.value)))

\* OsStr::to_str
ToStr(os) ==
    IF \E i \in 1..Len(os) : os[i] = "0x80" THEN NoneOf ELSE Some(os)

\* Variant: the arms for "ts" and "tsx" exchanged.
LanguageOfExtensionTsTsx(extension) ==
    CASE extension = <<"rs">>  -> "Rust"
      [] extension = <<"js">>  -> "Javascript"
      [] extension = <<"jsx">> -> "Jsx"
      [] extension = <<"ts">>  -> "Tsx"
      [] extension = <<"tsx">> -> "Typescript"
      [] extension = <<"go">>  -> "Go"
      [] extension = <<"py">>  -> "Python"
      [] OTHER -> None

\* The match of from_path on the extension.
LanguageOfExtension(extension) ==
    CASE extension = <<"rs">>  -> "Rust"
      [] extension = <<"js">>  -> "Javascript"
      [] extension = <<"jsx">> -> "Jsx"
      [] extension = <<"ts">>  -> "Typescript"
      [] extension = <<"tsx">> -> "Tsx"
      [] extension = <<"go">>  -> "Go"
      [] extension = <<"py">>  -> "Python"
      [] OTHER -> None

from_path(path) ==
    LET ext == Extension(path)
    IN  IF ~ext.some THEN None
        ELSE LET str == ToStr(ext.value)
             IN  IF ~str.some THEN None
                 ELSE LanguageOfExtension(str.value)

\* The paths given to from_path.
ExtensionWords == {"rs", "go", "js", "jsx", "ts", "tsx", "py", "RS", "txt"}

FileNames ==
    { <<"main", ".", e>> : e \in ExtensionWords }
      \cup { <<".", e>> : e \in ExtensionWords }
      \cup { <<"main", ".", "d", ".", e>> : e \in ExtensionWords }
      \cup { <<>>, <<"rs">>, <<"main", ".">>, <<"main", ".", "rs", "0x80">>,
             <<"main", ".", "0x80">>, <<".", ".">>, <<".">>,
             <<"main", ".", "rs", "/">>, <<"main", ".", " ", "rs">>,
             <<".", ".", "rs">>, <<".", "main", ".", "go">>, <<"/">> }

Directories == { <<>>, <<"lib", ".", "rs", "/">> }

Paths == { d \o f : d \in Directories, f \in FileNames }

(***************************************************************************)
(* State.                                                                  *)
(*   language      self of LapceLanguage::walk_tree                        *)
(*   tree          the parsed tree the cursor walks                        *)
(*   cursor        the node the TreeCursor is at                           *)
(*   normal_lines  the HashSet<usize> passed by the caller                 *)
(*   stack         the active calls of fn walk_tree, innermost last        *)
(*   calls         how many times the method has been called               *)
(*   passed        normal_lines as it was when the current call began      *)
(*   visited       the nodes the current call has read, in order           *)
(*   returned      the node whose call of fn walk_tree returned last       *)
(*   steps         the steps the current call has taken                    *)
(*   history       per finished call: what was passed, what came back      *)
(*   identified    the paths given to from_path and what it returned       *)
(***************************************************************************)
VARIABLES language, tree, cursor, normal_lines, stack, calls, passed,
          visited, returned, steps, history, identified

vars == <<language, tree, cursor, normal_lines, stack, calls, passed,
          visited, returned, steps, history, identified>>

walkVars == <<language, tree, cursor, normal_lines, stack, calls, passed,
              visited, returned, steps, history>>

\* Variant: the Rust arm yields its two lists in the other order.
CodeLensListsRustSwapped(self) ==
    CASE self = "Rust" ->
           [list |-> RUST_CODE_LENS_IGNORE_LIST,
            ignore_list |-> RUST_CODE_LENS_LIST]
      [] self = "Go" ->
           [list |-> GO_CODE_LENS_LIST,
            ignore_list |-> GO_CODE_LENS_IGNORE_LIST]
      [] OTHER ->
           [list |-> DEFAULT_CODE_LENS_LIST,
            ignore_list |-> DEFAULT_CODE_LENS_IGNORE_LIST]

\* Variant: no arm for Go, which falls to the default pair.
CodeLensListsNoGo(self) ==
    CASE self = "Rust" ->
           [list |-> RUST_CODE_LENS_LIST,
            ignore_list |-> RUST_CODE_LENS_IGNORE_LIST]
      [] OTHER ->
           [list |-> DEFAULT_CODE_LENS_LIST,
            ignore_list |-> DEFAULT_CODE_LENS_IGNORE_LIST]

\* LapceLanguage::walk_tree, the match on self.
CodeLensLists(self) ==
    CASE self = "Rust" ->
           [list |-> RUST_CODE_LENS_LIST,
            ignore_list |-> RUST_CODE_LENS_IGNORE_LIST]
      [] self = "Go" ->
           [list |-> GO_CODE_LENS_LIST,
            ignore_list |-> GO_CODE_LENS_IGNORE_LIST]
      [] OTHER ->
           [list |-> DEFAULT_CODE_LENS_LIST,
            ignore_list |-> DEFAULT_CODE_LENS_IGNORE_LIST]

Frame(node, level, list, ignore_list) ==
    [entry |-> node, level |-> level, list |-> list,
     ignore_list |-> ignore_list, pc |-> "visit"]

Top == stack[Len(stack)]

SetTopPc(pc) == [stack EXCEPT ![Len(stack)].pc = pc]

\* Variant: every row from the start row to the end row is inserted.
InsertedRange(t, node, ignore_list) ==
    LET kind == Trim(t.kind[node])
    IN  IF ~Contains(ignore_list, kind) /\ ~IsEmpty(kind)
        THEN t.start[node]..t.end[node]
        ELSE {}

\* Variant: the kind is not trimmed.
InsertedUntrimmed(t, node, ignore_list) ==
    LET kind == t.kind[node]
    IN  IF ~Contains(ignore_list, kind) /\ ~IsEmpty(kind)
        THEN {t.start[node], t.end[node]}
        ELSE {}

\* fn walk_tree, the insertion: the rows the node adds to normal_lines.
Inserted(t, node, ignore_list) ==
    LET kind == Trim(t.kind[node])
    IN  IF ~Contains(ignore_list, kind) /\ ~IsEmpty(kind)
        THEN {t.start[node], t.end[node]}
        ELSE {}

\* Variant: the kind is not tested against the list.
DescendAlways(t, cur, list) == GotoFirstChild(t, cur)

\* Variant: goto_first_child runs before the kind is tested, so the cursor
\* has moved even when the loop is not entered.
DescendMovesFirst(t, cur, list) ==
    LET g == GotoFirstChild(t, cur)
    IN  [moved |-> g.moved /\ Contains(list, Trim(t.kind[cur])),
         cursor |-> g.cursor]

\* fn walk_tree, the condition of the if around the loop: goto_first_child
\* runs only when the kind is in the list.
Descend(t, cur, list) ==
    IF Contains(list, Trim(t.kind[cur]))
    THEN GotoFirstChild(t, cur)
    ELSE [moved |-> FALSE, cursor |-> cur]

\* LapceLanguage::walk_tree: the lists are selected and fn walk_tree is
\* called at level 0 with the caller's cursor and set.
LapceWalkTree(set) ==
    /\ stack = <<>>
    /\ calls < MaxCalls
    /\ LET lists == CodeLensLists(language)
       IN  stack' = <<Frame(cursor, 0, lists.list, lists.ignore_list)>>
    /\ normal_lines' = set
    /\ passed' = set
    /\ calls' = calls + 1
    /\ visited' = <<>>
    /\ returned' = 0
    /\ steps' = 0
    /\ UNCHANGED <<language, tree, cursor, history, identified>>

\* fn walk_tree from its first line to the entry of the loop: the node is
\* read and classified, and when its kind is in the list and it has a
\* child the cursor moves to the first child and the recursive call begins.
Visit ==
    /\ stack # <<>>
    /\ Top.pc = "visit"
    /\ normal_lines' = normal_lines \cup Inserted(tree, cursor, Top.ignore_list)
    /\ visited' = Append(visited, cursor)
    /\ LET d == Descend(tree, cursor, Top.list)
       IN  /\ cursor' = d.cursor
           /\ stack' = IF d.moved
                       THEN Append(SetTopPc("loop"),
                                   Frame(d.cursor, Top.level + 1, Top.list,
                                         Top.ignore_list))
                       ELSE SetTopPc("return")
    /\ steps' = steps + 1
    /\ UNCHANGED <<language, tree, calls, passed, returned, history,
                   identified>>

\* Variant: no goto_parent after the loop.
NextSiblingNoParent ==
    /\ stack # <<>>
    /\ Top.pc = "loop"
    /\ LET s == GotoNextSibling(tree, cursor)
       IN  IF s.moved
           THEN /\ cursor' = s.cursor
                /\ stack' = Append(stack,
                                   Frame(s.cursor, Top.level + 1, Top.list,
                                         Top.ignore_list))
           ELSE /\ cursor' = cursor
                /\ stack' = SetTopPc("return")
    /\ steps' = steps + 1
    /\ UNCHANGED <<language, tree, normal_lines, calls, passed, visited,
                   returned, history, identified>>

\* Variant: the loop does not break when goto_next_sibling fails.
NextSiblingNoBreak ==
    /\ stack # <<>>
    /\ Top.pc = "loop"
    /\ LET s == GotoNextSibling(tree, cursor)
       IN  /\ cursor' = s.cursor
           /\ stack' = Append(stack,
                              Frame(s.cursor, Top.level + 1, Top.list,
                                    Top.ignore_list))
    /\ steps' = steps + 1
    /\ UNCHANGED <<language, tree, normal_lines, calls, passed, visited,
                   returned, history, identified>>

\* The loop after a recursive call has returned: goto_next_sibling, then
\* either the next recursive call or the break and goto_parent.
NextSibling ==
    /\ stack # <<>>
    /\ Top.pc = "loop"
    /\ LET s == GotoNextSibling(tree, cursor)
       IN  IF s.moved
           THEN /\ cursor' = s.cursor
                /\ stack' = Append(stack,
                                   Frame(s.cursor, Top.level + 1, Top.list,
                                         Top.ignore_list))
           ELSE /\ cursor' = GotoParent(tree, cursor).cursor
                /\ stack' = SetTopPc("return")
    /\ steps' = steps + 1
    /\ UNCHANGED <<language, tree, normal_lines, calls, passed, visited,
                   returned, history, identified>>

\* The end of fn walk_tree: the call returns to the loop of its caller, or,
\* at level 0, to the caller of the method.
Return ==
    /\ stack # <<>>
    /\ Top.pc = "return"
    /\ stack' = SubSeq(stack, 1, Len(stack) - 1)
    /\ returned' = Top.entry
    /\ history' = IF Len(stack) = 1
                  THEN Append(history,
                              [passed |-> passed, lines |-> normal_lines,
                               entry |-> Top.entry, exit |-> cursor,
                               visited |-> visited])
                  ELSE history
    /\ steps' = steps + 1
    /\ UNCHANGED <<language, tree, cursor, normal_lines, calls, passed,
                   visited, identified>>

Init ==
    /\ language \in LapceLanguage
    /\ tree \in InputTrees(language)
    /\ cursor = 1
    /\ normal_lines = {}
    /\ stack = <<>>
    /\ calls = 0
    /\ passed = {}
    /\ visited = <<>>
    /\ returned = 0
    /\ steps = 0
    /\ history = <<>>
    /\ identified = <<>>

Next ==
    \/ \E set \in (IF calls = 0 THEN PassedSets ELSE {{}}) :
          LapceWalkTree(set)
    \/ Visit
    \/ NextSibling
    \/ Return

Spec == Init /\ [][Next]_vars

(***************************************************************************)
(* Language identification on its own: the caller gives paths to           *)
(* from_path one after the other.                                          *)
(***************************************************************************)
FromPath(path) ==
    /\ Len(identified) < MaxIdentify
    /\ identified' = Append(identified,
                            [path |-> path, language |-> from_path(path)])
    /\ UNCHANGED walkVars

InitPath ==
    /\ language = "Rust"
    /\ tree = RustImplTree
    /\ cursor = 1
    /\ normal_lines = {}
    /\ stack = <<>>
    /\ calls = 0
    /\ passed = {}
    /\ visited = <<>>
    /\ returned = 0
    /\ steps = 0
    /\ history = <<>>
    /\ identified = <<>>

NextPath == \E path \in Paths : FromPath(path)

SpecPath == InitPath /\ [][NextPath]_vars


(***************************************************************************)
(* Vocabulary of the properties.                                           *)
(***************************************************************************)
Range(seq) == {seq[i] : i \in 1..Len(seq)}

\* A call of the method has returned and none is running.
Done == stack = <<>> /\ calls > 0

Walking == stack # <<>>

\* The node the running (or last finished) call of the method began at.
StartNode == IF Walking THEN stack[1].entry ELSE history[Len(history)].entry

Subtree(i) == {j \in 1..tree.n : i \in PathToRoot(tree.parent, j)}

ProperAncestors(i) == PathToRoot(tree.parent, i) \ {i}

Label(i) == Trim(tree.kind[i])

ExpandKinds == Range(CodeLensLists(language).list)

IgnoreKinds == Range(CodeLensLists(language).ignore_list)

\* The node's kind makes its boundary rows significant.
Significant(i) == Label(i) # <<>> /\ Label(i) \notin IgnoreKinds

Boundary(i) == {tree.start[i], tree.end[i]}

BoundariesOf(nodes) == UNION {Boundary(i) : i \in {j \in nodes : Significant(j)}}

\* The nodes at or below start all of whose proper ancestors up to start
\* have a kind of the expand list.
GatedNodes(start) ==
    {i \in Subtree(start) :
        \A a \in ProperAncestors(i) \cap Subtree(start) : Label(a) \in ExpandKinds}

(***************************************************************************)
(* C1: marking rule.  At every moment of a walk and after it, the set      *)
(* holds the rows passed in and, for every node visited so far whose       *)
(* trimmed kind is non-empty and not in the ignore list, its start row and *)
(* its end row, and nothing else: no row strictly inside a node is added   *)
(* for that node, and a node with an empty or ignored kind adds nothing.   *)
(***************************************************************************)
C1_MarkingRule ==
    normal_lines = passed \cup BoundariesOf(Range(visited))

\* A finished walk from an empty set that visited a significant node
\* spanning three rows or more whose inner rows stayed out of the set, a
\* node whose kind is whitespace only, and a node of an ignored kind.
C1_Witness ==
    /\ Done
    /\ passed = {}
    /\ \E x \in Range(visited) :
          /\ Significant(x)
          /\ tree.end[x] > tree.start[x] + 1
          /\ Boundary(x) \subseteq normal_lines
          /\ \A r \in (tree.start[x] + 1)..(tree.end[x] - 1) : r \notin normal_lines
    /\ \E y \in Range(visited) : Label(y) = <<>> /\ tree.kind[y] # <<>>
    /\ \E z \in Range(visited) : Label(z) \in IgnoreKinds

(***************************************************************************)
(* C2, as stated: when the root's kind is in the expand list and its one   *)
(* child's kind is not, the result set contains the root's and the child's *)
(* start and end rows.                                                     *)
(***************************************************************************)
C2_Original ==
    (/\ Done
     /\ StartNode = 1
     /\ Label(1) \in ExpandKinds
     /\ Cardinality(Children(tree, 1)) = 1
     /\ \A c \in Children(tree, 1) : Label(c) \notin ExpandKinds)
    => \A c \in Children(tree, 1) : Boundary(1) \cup Boundary(c) \subseteq normal_lines

(***************************************************************************)
(* C2, amended: recursion gate.  The walk visits exactly the nodes at or   *)
(* below its starting node all of whose proper ancestors up to the         *)
(* starting node have a kind in the expand list.  When the root's kind is  *)
(* in the expand list and its one child's kind is not, exactly the root    *)
(* and the child are visited, and the result set holds the rows passed in  *)
(* and the start and end rows of those of the two whose kind is non-empty  *)
(* and not in the ignore list, and no row on account of a descendant of    *)
(* the child.                                                              *)
(***************************************************************************)
C2_RecursionGate ==
    /\ Walking => Range(visited) \subseteq GatedNodes(StartNode)
    /\ Done => Range(visited) = GatedNodes(StartNode)
    /\ (/\ Done
        /\ StartNode = 1
        /\ Label(1) \in ExpandKinds
        /\ Cardinality(Children(tree, 1)) = 1
        /\ \A c \in Children(tree, 1) : Label(c) \notin ExpandKinds)
       => /\ Range(visited) = {1} \cup Children(tree, 1)
          /\ normal_lines = passed \cup BoundariesOf({1} \cup Children(tree, 1))

\* A finished walk from an empty set over a chain of three: the root is
\* expanded and significant, its child is significant and not expanded, and
\* the grandchild is not visited and none of its rows is in the set.
C2_Witness ==
    /\ Done
    /\ passed = {}
    /\ tree.n = 3
    /\ tree.parent = <<0, 1, 2>>
    /\ Label(1) \in ExpandKinds
    /\ Label(2) \notin ExpandKinds
    /\ Significant(1) /\ Significant(2) /\ Significant(3)
    /\ visited = <<1, 2>>
    /\ Boundary(1) \cup Boundary(2) \subseteq normal_lines
    /\ Boundary(3) \cap normal_lines = {}

(***************************************************************************)
(* C3: cursor restoration.  Every call of fn walk_tree, at level 0 or      *)
(* deeper, is about to return with the cursor at the node it was at when   *)
(* the call began; so when a recursive call has returned the cursor is at  *)
(* the child just processed, a recursive call that follows begins at that  *)
(* child's next sibling (the first recursive call of a node begins at its  *)
(* first child), and every finished call of the method left the cursor     *)
(* where it found it.                                                      *)
(***************************************************************************)
C3_CursorRestored ==
    /\ (Walking /\ Top.pc = "return") => cursor = Top.entry
    /\ (Walking /\ Top.pc = "loop") =>
          /\ cursor = returned
          /\ tree.parent[cursor] = Top.entry
    /\ (Walking /\ Top.pc = "visit") =>
          /\ cursor = Top.entry
          /\ Len(stack) > 1 =>
                LET caller == stack[Len(stack) - 1].entry
                IN  IF returned \in Children(tree, caller)
                    THEN /\ cursor \in LaterSiblings(tree, returned)
                         /\ \A c \in LaterSiblings(tree, returned) : cursor <= c
                    ELSE /\ cursor \in Children(tree, caller)
                         /\ \A c \in Children(tree, caller) : cursor <= c
    /\ \A i \in 1..Len(history) : history[i].exit = history[i].entry

\* The walk of the Rust trait tree is over: it went three levels deep,
\* passed from a child with an expanded subtree to that child's next
\* sibling, visited all six nodes, and the cursor is back at the root.
C3_Witness ==
    /\ Done
    /\ tree = RustTraitTree
    /\ visited = <<1, 2, 3, 4, 5, 6>>
    /\ cursor = 1
    /\ history[Len(history)].exit = 1

(***************************************************************************)
(* C10: termination and single visit.  A walk of a tree of n nodes takes   *)
(* at most 4 * n steps and can always take its next step until the call of *)
(* the method returns; no node is visited twice; a node is visited after   *)
(* each of its visited ancestors, and of two siblings the earlier one's    *)
(* visited subtree comes wholly before the later one's; when the call has  *)
(* returned the visited nodes are exactly those the recursion gate         *)
(* reaches; the cursor never leaves the subtree of the node the walk began *)
(* at; and every row passed in is in the set throughout.                   *)
(***************************************************************************)
C10_TerminatesSingleVisit ==
    /\ steps <= 4 * tree.n
    /\ Walking => ENABLED (Visit \/ NextSibling \/ Return)
    /\ \A i, j \in 1..Len(visited) : i # j => visited[i] # visited[j]
    /\ \A i, j \in 1..Len(visited) :
          i < j => visited[j] \notin ProperAncestors(visited[i])
    /\ \A i, j \in 1..Len(visited) :
          j < i =>
             \A a \in PathToRoot(tree.parent, visited[i]) :
                \A b \in PathToRoot(tree.parent, visited[j]) :
                   ~(tree.parent[a] = tree.parent[b] /\ tree.parent[a] # 0 /\ a < b)
    /\ Done => Range(visited) = GatedNodes(StartNode)
    /\ (Walking \/ Done) => cursor \in Subtree(StartNode)
    /\ passed \subseteq normal_lines

\* The walk of the Go interface tree, begun with a set that already held
\* rows 0 and 99, is over: nine of the ten nodes were visited in document
\* order, the block below the function declaration was not, and row 99 is
\* still in the set.
C10_Witness ==
    /\ Done
    /\ tree = GoInterfaceTree
    /\ passed = {0, 99}
    /\ visited = <<1, 2, 3, 4, 5, 6, 7, 8, 9>>
    /\ 99 \in normal_lines
    /\ steps <= 4 * tree.n

(***************************************************************************)
(* C4, as stated: for every language other than Rust and Go the walk       *)
(* visits only the root and marks only the root's start and end rows.      *)
(***************************************************************************)
C4_Original ==
    (Done /\ language \notin {"Rust", "Go"} /\ StartNode = 1)
    => /\ visited = <<1>>
       /\ normal_lines \subseteq passed \cup {tree.start[1], tree.end[1]}

(***************************************************************************)
(* C4, amended: for every language other than Rust and Go, a walk begun at *)
(* the root visits the root and, below it, exactly the nodes all of whose  *)
(* proper ancestors have the trimmed kind "source_file", and adds the      *)
(* start and end rows of exactly the visited nodes whose trimmed kind is   *)
(* non-empty and is not "source_file".  So a root of any other kind is the *)
(* only node visited and only its two rows are added (none when its        *)
(* trimmed kind is empty), while a root of kind "source_file" adds no row  *)
(* of its own and has each of its children visited and classified.         *)
(***************************************************************************)
C4_DefaultPair ==
    (Done /\ language \notin {"Rust", "Go"} /\ StartNode = 1)
    => LET reached == {i \in 1..tree.n :
                          \A a \in ProperAncestors(i) : Label(a) = <<"source_file">>}
           marked  == {i \in reached :
                          Label(i) # <<>> /\ Label(i) # <<"source_file">>}
       IN  /\ Range(visited) = reached
           /\ normal_lines = passed \cup UNION {Boundary(i) : i \in marked}
           /\ Label(1) # <<"source_file">> =>
                 /\ visited = <<1>>
                 /\ normal_lines \subseteq passed \cup Boundary(1)
                 /\ Label(1) # <<>> => Boundary(1) \subseteq normal_lines
           /\ Label(1) = <<"source_file">> =>
                 /\ Children(tree, 1) \subseteq Range(visited)
                 /\ 1 \notin marked

\* A Typescript walk from an empty set is over on a tree whose root is a
\* source_file with two children: both children were visited, the rows of
\* the child of another kind are in the set, and the root's first row,
\* which no child shares, is not.
C4_Witness ==
    /\ Done
    /\ language = "Typescript"
    /\ passed = {}
    /\ Label(1) = <<"source_file">>
    /\ tree.parent = <<0, 1, 1>>
    /\ visited = <<1, 2, 3>>
    /\ Label(2) = <<"program">>
    /\ Boundary(2) \subseteq normal_lines
    /\ tree.start[1] \notin normal_lines

C6_IgnoredOnlyEmpty ==
    (/\ Done
     /\ passed = {}
     /\ Label(1) \in IgnoreKinds
     /\ \A x \in Range(visited) : Label(x) \in IgnoreKinds \/ Label(x) = <<>>)
    => normal_lines = {}

\* The Go walk of source_file { comment 1-1 } from an empty set is over,
\* both nodes were visited and the set is empty.
C6_Witness ==
    /\ Done
    /\ language = "Go"
    /\ tree = GoCommentTree
    /\ passed = {}
    /\ visited = <<1, 2>>
    /\ normal_lines = {}

(***************************************************************************)
(* C8: idempotence.  Any two finished calls of the method on the same tree *)
(* with the same language that each started from an empty set returned the *)
(* same set, after visiting the same nodes from the same starting node.    *)
(***************************************************************************)
C8_Idempotent ==
    \A i, j \in 1..Len(history) :
       (history[i].passed = {} /\ history[j].passed = {}) =>
          /\ history[i].lines = history[j].lines
          /\ history[i].visited = history[j].visited
          /\ history[i].entry = history[j].entry

\* Two calls from an empty set on the Rust trait tree have returned, each
\* with the rows {0, 1, 2, 3, 5, 6}.
C8_Witness ==
    /\ Len(history) = 2
    /\ tree = RustTraitTree
    /\ history[1].passed = {}
    /\ history[2].passed = {}
    /\ history[1].lines = {0, 1, 2, 3, 5, 6}
    /\ history[2].lines = {0, 1, 2, 3, 5, 6}

(***************************************************************************)
(* C9: list selection.  In every active call of fn walk_tree, at every     *)
(* level, the two lists are the pair of the language: the Rust pair for    *)
(* Rust, the Go pair for Go, and for every other language the pair whose   *)
(* expand list and ignore list are each the single entry "source_file";    *)
(* both lists are non-empty.                                               *)
(***************************************************************************)
C9_ListPair ==
    \A k \in 1..Len(stack) :
       /\ Len(stack[k].list) > 0
       /\ Len(stack[k].ignore_list) > 0
       /\ language = "Rust" =>
             /\ stack[k].list = RUST_CODE_LENS_LIST
             /\ stack[k].ignore_list = RUST_CODE_LENS_IGNORE_LIST
       /\ language = "Go" =>
             /\ stack[k].list = GO_CODE_LENS_LIST
             /\ stack[k].ignore_list = GO_CODE_LENS_IGNORE_LIST
       /\ language \notin {"Rust", "Go"} =>
             /\ stack[k].list = << <<"source_file">> >>
             /\ stack[k].ignore_list = << <<"source_file">> >>
       /\ stack[k].list = stack[1].list
       /\ stack[k].ignore_list = stack[1].ignore_list

\* A Go walk is five calls deep: the call at level 4 holds the Go lists.
C9_Witness ==
    /\ language = "Go"
    /\ Len(stack) = 5
    /\ stack[5].level = 4
    /\ stack[5].list = GO_CODE_LENS_LIST

(***************************************************************************)
(* C7: language identification.  Every call of from_path returns a result  *)
(* (a language or none) that is decided by the path's extension alone: rs  *)
(* gives Rust, go Go, js Javascript, jsx Jsx, ts Typescript, tsx Tsx, py   *)
(* Python; any other extension and a path with no extension give none.     *)
(* Two calls whose paths have the same extension return the same result,   *)
(* and two calls that return the same language had the same extension.     *)
(***************************************************************************)
C7_FromPath ==
    /\ \A i \in 1..Len(identified) :
          LET ext == Extension(identified[i].path)
              tag == identified[i].language
          IN  /\ tag \in LapceLanguage \cup {None}
              /\ (ext.some /\ ext.value = <<"rs">>)  => tag = "Rust"
              /\ (ext.some /\ ext.value = <<"go">>)  => tag = "Go"
              /\ (ext.some /\ ext.value = <<"js">>)  => tag = "Javascript"
              /\ (ext.some /\ ext.value = <<"jsx">>) => tag = "Jsx"
              /\ (ext.some /\ ext.value = <<"ts">>)  => tag = "Typescript"
              /\ (ext.some /\ ext.value = <<"tsx">>) => tag = "Tsx"
              /\ (ext.some /\ ext.value = <<"py">>)  => tag = "Python"
              /\ (ext.some /\ ext.value \notin
                     { <<"rs">>, <<"go">>, <<"js">>, <<"jsx">>, <<"ts">>,
                       <<"tsx">>, <<"py">> }) => tag = None
              /\ ~ext.some => tag = None
    /\ \A i, j \in 1..Len(identified) :
          LET ei == Extension(identified[i].path)
              ej == Extension(identified[j].path)
          IN  /\ ei = ej => identified[i].language = identified[j].language
              /\ (identified[i].language = identified[j].language
                    /\ identified[i].language # None) => ei = ej

\* from_path has answered twice: Tsx for "lib.rs/main.d.tsx", whose
\* directory has another extension, and none for ".rs", a file name with
\* no extension.
C7_Witness ==
    /\ Len(identified) = 2
    /\ identified[1].path = <<"lib", ".", "rs", "/", "main", ".", "d", ".", "tsx">>
    /\ identified[1].language = "Tsx"
    /\ identified[2].path = <<".", "rs">>
    /\ identified[2].language = None

=============================================================================
